---- MODULE Spec2Model ----
(***************************************************************************)
(* Model of the visitor-counting core of people_detection:                 *)
(*   tracker.py  Tracker        (register, deregister, update, ...)        *)
(*   reid.py     PersonReID     (identify_person and its gallery)          *)
(*   counter.py  VisitorCounter (count_visitors)                           *)
(*   database.py Database       (add_visitor, the visitors table)          *)
(*                                                                         *)
(* Python dicts are functions with a finite domain; a dict's key set is    *)
(* the function's DOMAIN.  Track ids are inserted in increasing order and  *)
(* a key is never re-inserted after deletion, so dict iteration order is   *)
(* ascending id.  Centroids are kept in half-pixel units (x1+x2, y1+y2),   *)
(* i.e. twice the float the code stores, so that (x1+x2)/2.0 needs no      *)
(* rounding; every comparison against a centroid is scaled accordingly.    *)
(* datetime.now() is the integer clock `now`.                              *)
(***************************************************************************)
EXTENDS Integers, Sequences, FiniteSets, TLC

\* ------------------------------------------------------------------ bounds
\* Total number of track ids the model lets register() hand out.
MaxIds == 2
\* Largest number of detections in one frame.
MaxDets == 2
\* Last value of the clock.
MaxTime == 1
\* Number of track ids where three objects are to be live at once.
MaxShedIds == 3

\* ---------------------------------------------------- constructor arguments
\* Tracker(max_disappeared, max_distance, exit_timeout): frames, pixels and
\* seconds, scaled down from the defaults 40, 50 and 10.
max_disappeared == 1
max_distance == 2
exit_timeout == 0
\* PersonReID(similarity_threshold=0.6), as a percentage
similarity_threshold == 60
\* Size of a frame in pixels, scaled down.
frame_width == 8
frame_height == 4
\* VisitorCounter(line_position=0.5), as a fraction
line_position_num == 1
line_position_den == 2

\* ----------------------------------------------------------------- inputs
\* Bounding boxes (x1, y1, x2, y2) a detector can report.
Boxes == { <<x, 0, x + 2, 2>> : x \in {0, 2, 4} }

\* A detection is (x1, y1, x2, y2, confidence); the confidence, a percentage,
\* is ignored by the tracker.
Detections == { <<b[1], b[2], b[3], b[4], 90>> : b \in Boxes }

\* Unit feature vectors (scaled by 10) the extractor can return.  The cosine
\* similarity of two of them, as a percentage, is their dot product.
Features == { <<10, 0>>, <<6, 8>> }
ZeroFeatures == <<0, 0>>

RECURSIVE SeqsUpTo(_, _)
SeqsUpTo(S, n) ==
    IF n = 0 THEN { <<>> }
    ELSE LET shorter == SeqsUpTo(S, n - 1)
         IN  shorter \cup { Append(s, x) : s \in { t \in shorter : Len(t) = n - 1 }, x \in S }

DetectionLists == SeqsUpTo(Detections, MaxDets)

BBoxOf(detection) == <<detection[1], detection[2], detection[3], detection[4]>>

BoxesIn(detections) == { BBoxOf(detections[i]) : i \in 1..Len(detections) }

\* A frame is None or an image; of an image the model keeps what the feature
\* extractor sees in each detected region.
NoFrame == [present |-> FALSE, img |-> <<>>]
FramesFor(detections) ==
    { [present |-> TRUE, img |-> f] : f \in [BoxesIn(detections) -> Features] }

\* ---------------------------------------------------------------- helpers
Min(S) == CHOOSE x \in S : \A y \in S : x <= y

MinOf(a, b) == IF a <= b THEN a ELSE b
MaxOf(a, b) == IF a >= b THEN a ELSE b

RECURSIVE SortedSeq(_)
SortedSeq(S) == IF S = {} THEN <<>> ELSE <<Min(S)>> \o SortedSeq(S \ {Min(S)})

Put(f, k, v) == [x \in DOMAIN f \cup {k} |-> IF x = k THEN v ELSE f[x]]
Del(f, k) == [x \in DOMAIN f \ {k} |-> f[x]]
EmptyDict == [x \in {} |-> 0]

Range(s) == { s[i] : i \in DOMAIN s }

\* ------------------------------------------------------------ reid.py
\* PersonReID.extract_features: the box is clamped to the frame; an empty box
\* gives the zero vector, otherwise the features of the cropped region.
extract_features(frame, bbox) ==
    LET x1 == MaxOf(0, bbox[1])
        y1 == MaxOf(0, bbox[2])
        x2 == MinOf(frame_width - 1, bbox[3])
        y2 == MinOf(frame_height - 1, bbox[4])
    IN  IF x2 <= x1 \/ y2 <= y1 THEN ZeroFeatures ELSE frame.img[bbox]

\* np.dot of two vectors raises ValueError when their lengths differ (a deep
\* feature vector against a histogram one).
dot_raises(features1, features2) == Len(features1) # Len(features2)

\* PersonReID.compare_features: np.dot of two feature vectors.
RECURSIVE compare_features(_, _)
compare_features(features1, features2) ==
    IF features1 = <<>> THEN 0
    ELSE Head(features1) * Head(features2)
             + compare_features(Tail(features1), Tail(features2))

\* The loop of identify_person over gallery.items(): the first entry with the
\* strictly highest similarity above 0 wins
\* (best_match_id = None is found = FALSE); an exception of compare_features
\* ends the loop (raised = TRUE).
RECURSIVE BestMatch(_, _, _, _)
BestMatch(gal, pids, features, best) ==
    IF pids = <<>> THEN best
    ELSE IF dot_raises(features, gal[Head(pids)]) THEN [best EXCEPT !.raised = TRUE]
    ELSE LET similarity == compare_features(features, gal[Head(pids)])
         IN  BestMatch(gal, Tail(pids), features,
                       IF similarity > best.score
                       THEN [found |-> TRUE, id |-> Head(pids), score |-> similarity,
                             raised |-> FALSE]
                       ELSE best)

\* Variant: a similarity equal to the threshold is a match.
at_or_above_threshold(score) == score >= similarity_threshold

\* best_match_score > self.similarity_threshold
above_threshold(score) == score > similarity_threshold

\* Variant: the tracking-id mapping is not consulted, every call goes through
\* the gallery.
identify_person_no_mapping(T, frame, bbox, tracking_id) ==
    LET features == extract_features(frame, bbox)
        new_person_id == T.person_count + 1
        Decide(best) ==
            IF best.raised
            THEN [T |-> [T EXCEPT !.raised = TRUE], person_id |-> 0, is_new |-> FALSE]
            ELSE
            IF best.found /\ above_threshold(best.score)
            THEN [T |-> [T EXCEPT !.person_id_mapping = Put(@, tracking_id, best.id)],
                  person_id |-> best.id, is_new |-> FALSE]
            ELSE [T |-> [T EXCEPT !.person_count = new_person_id,
                                  !.gallery = Put(@, new_person_id, features),
                                  !.person_id_mapping = Put(@, tracking_id, new_person_id)],
                  person_id |-> new_person_id, is_new |-> TRUE]
    IN  Decide(BestMatch(T.gallery, SortedSeq(DOMAIN T.gallery), features,
                         [found |-> FALSE, id |-> 0, score |-> 0, raised |-> FALSE]))

\* PersonReID.identify_person on the tracker-and-gallery record T.  When the
\* call raises, the result carries T.raised = TRUE and nothing was written.
identify_person(T, frame, bbox, tracking_id) ==
    IF tracking_id \in DOMAIN T.person_id_mapping
    THEN [T |-> T, person_id |-> T.person_id_mapping[tracking_id], is_new |-> FALSE]
    ELSE
    LET features == extract_features(frame, bbox)
        new_person_id == T.person_count + 1
        Decide(best) ==
            IF best.raised
            THEN [T |-> [T EXCEPT !.raised = TRUE], person_id |-> 0, is_new |-> FALSE]
            ELSE
            IF best.found /\ above_threshold(best.score)
            THEN [T |-> [T EXCEPT !.person_id_mapping = Put(@, tracking_id, best.id)],
                  person_id |-> best.id, is_new |-> FALSE]
            ELSE [T |-> [T EXCEPT !.person_count = new_person_id,
                                  !.gallery = Put(@, new_person_id, features),
                                  !.person_id_mapping = Put(@, tracking_id, new_person_id)],
                  person_id |-> new_person_id, is_new |-> TRUE]
    IN  Decide(BestMatch(T.gallery, SortedSeq(DOMAIN T.gallery), features,
                         [found |-> FALSE, id |-> 0, score |-> 0, raised |-> FALSE]))

\* --------------------------------------------------------- tracker.py
\* Variant: the re-entry shortcut stamps the entry time but leaves the state.
mark_as_counted_keeps_state(T, object_id, now_) ==
    IF object_id \in DOMAIN T.states /\ T.states[object_id] = "new"
    THEN [T EXCEPT !.entry_times = Put(@, object_id, now_)]
    ELSE T

\* Tracker.mark_as_counted
mark_as_counted(T, object_id, now_) ==
    IF object_id \in DOMAIN T.states /\ T.states[object_id] = "new"
    THEN [T EXCEPT !.states = Put(@, object_id, "scanned"),
                   !.entry_times = Put(@, object_id, now_)]
    ELSE T

\* Tracker.mark_as_scanned
mark_as_scanned(T, object_id) ==
    IF object_id \in DOMAIN T.objects
    THEN [T EXCEPT !.states = Put(@, object_id, "scanned")]
    ELSE T

\* Variant: the id is taken from the number of live objects.
new_track_id_len(T) == Cardinality(DOMAIN T.objects)

\* track_id = self.next_object_id
new_track_id(T) == T.next_object_id

\* Tracker.register.  An exception of identify_person leaves register after
\* the first five assignments: T.raised = TRUE, next_object_id not incremented.
register(T, centroid, bbox, frame, now_) ==
    LET track_id == new_track_id(T)
        Identified(r) ==
            IF r.T.raised THEN r.T
            ELSE
            IF r.person_id \in r.T.counted_people
            THEN [mark_as_counted([r.T EXCEPT !.person_ids = Put(@, track_id, r.person_id)],
                                  track_id, now_)
                     EXCEPT !.reentered = @ \cup {track_id}]
            ELSE [r.T EXCEPT !.person_ids = Put(@, track_id, r.person_id)]
        Stored(T1) ==
            IF T1.reid_enabled /\ frame.present
            THEN Identified(identify_person(T1, frame, bbox, track_id))
            ELSE T1
        Return(T2) ==
            IF T2.raised THEN T2
            ELSE [T2 EXCEPT !.next_object_id = @ + 1,
                            !.returned_ids = Append(@, track_id)]
    IN  Return(Stored([T EXCEPT !.objects = Put(@, track_id, centroid),
                                !.positions = Put(@, track_id, bbox),
                                !.disappeared = Put(@, track_id, 0),
                                !.timestamps = Put(@, track_id, now_),
                                !.states = Put(@, track_id, "new")]))

\* Variant: deregistration marks the object exited whatever its state.
deregister_any_state(T, object_id, now_) ==
    [T EXCEPT !.states = Put(@, object_id, "exited"),
              !.exit_times = Put(@, object_id, now_),
              !.counted_people =
                  IF T.reid_enabled /\ object_id \in DOMAIN T.person_ids
                  THEN @ \cup {T.person_ids[object_id]}
                  ELSE @,
              !.objects = Del(@, object_id),
              !.disappeared = Del(@, object_id),
              !.positions = Del(@, object_id)]

\* Variant: deregistration leaves the bounding box of the object behind.
deregister_keeps_bbox(T, object_id, now_) ==
    LET Remove(T1) == [T1 EXCEPT !.objects = Del(@, object_id),
                                 !.disappeared = Del(@, object_id)]
    IN  Remove(IF T.states[object_id] = "scanned"
               THEN [T EXCEPT !.states = Put(@, object_id, "exited"),
                              !.exit_times = Put(@, object_id, now_)]
               ELSE T)

\* Tracker.deregister
deregister(T, object_id, now_) ==
    LET Remove(T1) == [T1 EXCEPT !.objects = Del(@, object_id),
                                 !.disappeared = Del(@, object_id),
                                 !.positions = Del(@, object_id)]
    IN  Remove(IF T.states[object_id] = "scanned"
               THEN [T EXCEPT !.states = Put(@, object_id, "exited"),
                              !.exit_times = Put(@, object_id, now_),
                              !.counted_people =
                                  IF T.reid_enabled /\ object_id \in DOMAIN T.person_ids
                                  THEN @ \cup {T.person_ids[object_id]}
                                  ELSE @]
               ELSE T)

\* Tracker.is_already_counted
is_already_counted(T, object_id) ==
    IF ~T.reid_enabled THEN FALSE
    ELSE IF object_id \in DOMAIN T.person_ids
         THEN T.person_ids[object_id] \in T.counted_people
         ELSE FALSE

\* Tracker.get_objects: the snapshot handed to the counter.  person_id is a
\* set: empty for None, otherwise the one person id.
get_objects(T) ==
    [object_id \in DOMAIN T.objects |->
        [centroid |-> T.objects[object_id],
         bbox |-> T.positions[object_id],
         state |-> T.states[object_id],
         person_id |-> IF T.reid_enabled /\ object_id \in DOMAIN T.person_ids
                       THEN {T.person_ids[object_id]} ELSE {},
         already_counted |-> is_already_counted(T, object_id)]]

\* Variant: an object is due as soon as exit_timeout is reached.
exit_due_at_timeout(T, object_id, current_time) ==
    /\ object_id \in DOMAIN T.states
    /\ T.states[object_id] = "scanned"
    /\ current_time - T.timestamps[object_id] >= T.exit_timeout
    /\ object_id \in DOMAIN T.objects

\* The two tests of check_for_exits: a scanned object, last seen more than
\* exit_timeout ago and still live.
exit_due(T, object_id, current_time) ==
    /\ object_id \in DOMAIN T.states
    /\ T.states[object_id] = "scanned"
    /\ current_time - T.timestamps[object_id] > T.exit_timeout
    /\ object_id \in DOMAIN T.objects

\* Tracker.check_for_exits, the loop over list(self.timestamps.items()).
RECURSIVE check_for_exits_loop(_, _, _, _)
check_for_exits_loop(T, ids, exited_ids, current_time) ==
    IF ids = <<>> THEN [T |-> T, exited_ids |-> exited_ids]
    ELSE LET object_id == Head(ids)
         IN  IF exit_due(T, object_id, current_time)
             THEN check_for_exits_loop(
                      deregister([T EXCEPT !.states = Put(@, object_id, "exited"),
                                           !.exit_times = Put(@, object_id, current_time)],
                                 object_id, current_time),
                      Tail(ids), Append(exited_ids, object_id), current_time)
             ELSE check_for_exits_loop(T, Tail(ids), exited_ids, current_time)

check_for_exits(T, now_) ==
    check_for_exits_loop(T, SortedSeq(DOMAIN T.timestamps), <<>>, now_)

\* Variant: the objects are shed in id order, whatever their counts.
SortById(disap, ids) == SortedSeq(ids)

\* Load shedding of Tracker.update: sorted(disappeared.items(), key = count,
\* reverse = True) is stable, so equal counts stay in dict (ascending id) order.
RECURSIVE SortByDisappearedDesc(_, _)
SortByDisappearedDesc(disap, ids) ==
    IF ids = {} THEN <<>>
    ELSE LET first == CHOOSE i \in ids :
                          \A j \in ids : \/ disap[i] > disap[j]
                                         \/ (disap[i] = disap[j] /\ i <= j)
         IN  <<first>> \o SortByDisappearedDesc(disap, ids \ {first})

RECURSIVE deregister_all(_, _, _)
deregister_all(T, ids, now_) ==
    IF ids = <<>> THEN T
    ELSE deregister_all(deregister(T, Head(ids), now_), Tail(ids), now_)

shed_load(T, detections, now_) ==
    IF Cardinality(DOMAIN T.objects) > 2 * Len(detections) /\ Len(detections) > 0
    THEN LET objects_to_remove == SortByDisappearedDesc(T.disappeared, DOMAIN T.disappeared)
         IN  deregister_all(T, SubSeq(objects_to_remove, 1, Len(objects_to_remove) \div 2), now_)
    ELSE T

\* Variant: eviction one frame early.
over_max_disappeared_early(T, object_id) ==
    T.disappeared[object_id] >= T.max_disappeared

\* Variant: eviction one frame late.
over_max_disappeared_late(T, object_id) ==
    T.disappeared[object_id] > T.max_disappeared + 1

\* self.disappeared[object_id] > self.max_disappeared
over_max_disappeared(T, object_id) ==
    T.disappeared[object_id] > T.max_disappeared

\* Variant: the count stops at max_disappeared.
next_disappeared_capped(T, object_id) ==
    IF T.disappeared[object_id] >= T.max_disappeared
    THEN T.disappeared[object_id]
    ELSE T.disappeared[object_id] + 1

\* self.disappeared[object_id] += 1
next_disappeared(T, object_id) == T.disappeared[object_id] + 1

\* One pass of "disappeared += 1; deregister when over max_disappeared" over
\* the given ids (both the no-detection branch and the unmatched rows).
RECURSIVE mark_disappeared(_, _, _)
mark_disappeared(T, ids, now_) ==
    IF ids = <<>> THEN T
    ELSE LET object_id == Head(ids)
             Check(T1) == IF over_max_disappeared(T1, object_id)
                          THEN deregister(T1, object_id, now_)
                          ELSE T1
         IN  mark_disappeared(Check([T EXCEPT !.disappeared[object_id] =
                                                   next_disappeared(T, object_id)]),
                              Tail(ids), now_)

\* Centroid of a detection, in half-pixel units: 2 * ((x1+x2)/2.0, (y1+y2)/2.0).
Centroid(detection) == <<detection[1] + detection[3], detection[2] + detection[4]>>

\* Squared Euclidean distance of two centroids (half-pixel units).
Dist2(c1, c2) ==
    (c1[1] - c2[1]) * (c1[1] - c2[1]) + (c1[2] - c2[2]) * (c1[2] - c2[2])

\* Variant: a detection exactly max_distance away is not matched.
TooFarAtRadius(T, d2) == d2 >= 4 * T.max_distance * T.max_distance

\* D[row, col] > self.max_distance, on squared half-pixel distances.
TooFar(T, d2) == d2 > 4 * T.max_distance * T.max_distance

RECURSIVE register_all(_, _, _, _, _)
register_all(T, cols, detections, frame, now_) ==
    IF cols = <<>> \/ T.raised THEN T
    ELSE register_all(register(T, Centroid(detections[Head(cols)]),
                               BBoxOf(detections[Head(cols)]), frame, now_),
                      Tail(cols), detections, frame, now_)

\* Variant: the objects are processed in index order, whatever their distances.
ArgSortByIndex(rowmin, rows) == SortedSeq(rows)

\* rows = D.min(axis=1).argsort(): row indices by ascending row minimum, equal
\* minima in index order.
RECURSIVE ArgSort(_, _)
ArgSort(rowmin, rows) ==
    IF rows = {} THEN <<>>
    ELSE LET first == CHOOSE r \in rows :
                          \A q \in rows : \/ rowmin[r] < rowmin[q]
                                          \/ (rowmin[r] = rowmin[q] /\ r <= q)
         IN  <<first>> \o ArgSort(rowmin, rows \ {first})

\* The loop "for (row, col) in zip(rows, cols)" of Tracker.update.
RECURSIVE match_loop(_, _, _, _, _, _, _)
match_loop(M, rows, cols, D, object_ids, detections, now_) ==
    IF rows = <<>> THEN M
    ELSE LET row == Head(rows)
             col == cols[row]
         IN  IF row \in M.used_rows \/ col \in M.used_cols \/ TooFar(M.T, D[row][col])
             THEN match_loop(M, Tail(rows), cols, D, object_ids, detections, now_)
             ELSE LET object_id == object_ids[row]
                  IN  match_loop([T |-> [M.T EXCEPT
                                          !.objects[object_id] = Centroid(detections[col]),
                                          !.positions[object_id] = BBoxOf(detections[col]),
                                          !.disappeared[object_id] = 0,
                                          !.timestamps[object_id] = now_],
                                  used_rows |-> M.used_rows \cup {row},
                                  used_cols |-> M.used_cols \cup {col},
                                  pairs |-> M.pairs \cup {<<object_id, col>>}],
                                 Tail(rows), cols, D, object_ids, detections, now_)

\* The matching part of the else-branch of Tracker.update: D = cdist(...),
\* rows = D.min(axis=1).argsort(), cols = D.argmin(axis=1), then the loop.
\* The result holds the tracker, used_rows, used_cols and the (object id,
\* detection index) pairs the loop assigned.
match_rows(T, detections, now_) ==
    LET C == 1..Len(detections)
        Assign(object_ids, D, rowmin) ==
            match_loop([T |-> T, used_rows |-> {}, used_cols |-> {}, pairs |-> {}],
                       ArgSort(rowmin, DOMAIN D),
                       [r \in DOMAIN D |-> Min({ c \in C : D[r][c] = rowmin[r] })],
                       D, object_ids, detections, now_)
        Distances(object_ids, D) ==
            Assign(object_ids, D, [r \in DOMAIN D |-> Min({ D[r][c] : c \in C })])
        Rows(object_ids) ==
            Distances(object_ids,
                      [r \in 1..Len(object_ids) |-> [c \in C |->
                          Dist2(T.objects[object_ids[r]], Centroid(detections[c]))]])
    IN  Rows(SortedSeq(DOMAIN T.objects))

\* The else-branch of Tracker.update: greedy nearest-centroid assignment, then
\* the unused rows (disappeared += 1) and the unused columns (register).
match_detections(T, detections, frame, now_) ==
    LET object_ids == SortedSeq(DOMAIN T.objects)
        Finish(M) ==
            register_all(
                mark_disappeared(M.T,
                    SortedSeq({ object_ids[r] : r \in (1..Len(object_ids)) \ M.used_rows }),
                    now_),
                SortedSeq((1..Len(detections)) \ M.used_cols), detections, frame, now_)
    IN  Finish(match_rows(T, detections, now_))

\* Tracker.update: the tracker after the call (the call returns get_objects()).
update(T, detections, frame, now_) ==
    LET Track(T1) ==
            IF Len(detections) = 0
            THEN mark_disappeared(T1, SortedSeq(DOMAIN T1.disappeared), now_)
            ELSE IF Cardinality(DOMAIN T1.objects) = 0
                 THEN register_all(T1, SortedSeq(1..Len(detections)), detections, frame, now_)
                 ELSE match_detections(T1, detections, frame, now_)
    IN  Track(shed_load(T, detections, now_))

\* -------------------------------------------------------- database.py
\* Database.add_visitor on the counter-and-sink record K: one INSERT into the
\* AUTOINCREMENT table `visitors`; when the write fails (ok = FALSE) the
\* exception is logged and no row is added.
add_visitor(K, timestamp, direction_, notes, ok) ==
    LET K1 == [K EXCEPT !.add_visitor_calls =
                            Append(@, [direction |-> direction_, notes |-> notes])]
    IN  IF ok
        THEN [K1 EXCEPT !.visitors =
                  Append(@, [id |-> K.last_rowid + 1, timestamp |-> timestamp,
                             direction |-> direction_, notes |-> notes]),
                        !.last_rowid = @ + 1]
        ELSE K1

\* --------------------------------------------------------- counter.py
\* VisitorCounter.__init__: int(line_position * frame_width)
line_position == (line_position_num * frame_width) \div line_position_den

\* "left" if cx < self.line_position else "right", cx in half-pixel units.
Side(K, centroid) == IF centroid[1] < 2 * K.line_position THEN "left" ELSE "right"

\* Variant: level-triggered, any object seen on the left counts.
IsCrossingLevel(last_position, current_position) == current_position = "left"

\* Variant: either direction counts.
IsCrossingBoth(last_position, current_position) == last_position # current_position

\* The crossing test of count_visitors.
IsCrossing(last_position, current_position) ==
    last_position = "right" /\ current_position = "left"

\* self.count += 1
increment_count(K) == [K EXCEPT !.count = @ + 1]

\* self.total_left += 1
increment_total_left(K) == [K EXCEPT !.total_left = @ + 1]

\* Variant: the object is not remembered as counted.
mark_counted_forgets(K, object_id) == K

\* "Tandai sebagai sudah dihitung": the per-object flag and the global set.
mark_counted(K, object_id) ==
    [K EXCEPT !.last_positions[object_id].counted = TRUE,
              !.counted_ids = @ \cup {object_id}]

\* Variant: the event is not handed to the database.
emit_event_dropped(K, object_id, failed, now_) == K

\* "if self.db: self.db.add_visitor(...)"; `failed` are the object ids whose
\* database write fails.
emit_event(K, object_id, failed, now_) ==
    IF K.db
    THEN add_visitor(K, now_, "left", object_id, object_id \notin failed)
    ELSE K

\* The body of the loop of VisitorCounter.count_visitors for one object.  S is
\* the pair of the counter-and-sink record K and the tracker record T.
count_one(S, object_id, data, failed, now_) ==
    LET K == S.K
    IN  IF object_id \in K.counted_ids
        THEN [S EXCEPT !.K.skipped = @ \cup {Side(K, data.centroid)}]
        ELSE
        LET current_position == Side(K, data.centroid)
            K0 == [K EXCEPT !.sides_seen =
                       Put(@, object_id,
                           (IF object_id \in DOMAIN @ THEN @[object_id] ELSE {})
                               \cup {current_position})]
        IN  IF object_id \notin DOMAIN K.last_positions
            THEN [S EXCEPT !.K = [K0 EXCEPT !.last_positions =
                      Put(@, object_id, [position |-> current_position, counted |-> FALSE])]]
            ELSE
            LET last_position == K.last_positions[object_id].position
                already_counted == K.last_positions[object_id].counted
                Refresh(S1) ==
                    [S1 EXCEPT !.K.last_positions[object_id].position = current_position]
            IN  Refresh(IF /\ ~already_counted
                           /\ object_id \notin K.counted_ids
                           /\ IsCrossing(last_position, current_position)
                        THEN [K |-> emit_event(
                                       mark_counted(
                                           increment_total_left(increment_count(
                                               [K0 EXCEPT
                                                   !.fired = Append(@, [id |-> object_id,
                                                                        from |-> last_position,
                                                                        to |-> current_position])])),
                                           object_id),
                                       object_id, failed, now_),
                              T |-> mark_as_scanned(S.T, object_id)]
                        ELSE [S EXCEPT !.K = K0])

RECURSIVE count_loop(_, _, _, _, _)
count_loop(S, ids, objs, failed, now_) ==
    IF ids = <<>> THEN S
    ELSE count_loop(count_one(S, Head(ids), objs[Head(ids)], failed, now_),
                    Tail(ids), objs, failed, now_)

\* VisitorCounter.count_visitors
count_visitors(K, T, objs, failed, now_) ==
    IF DOMAIN objs = {} THEN [K |-> K, T |-> T]
    ELSE count_loop([K |-> K, T |-> T], SortedSeq(DOMAIN objs), objs, failed, now_)

\* Variant: the row with id = after_id is returned as well.
get_visitors_inclusive(rows, after_id) ==
    SelectSeq(rows, LAMBDA row : row.id >= after_id)

\* Database.get_visitors(after_id): SELECT * FROM visitors WHERE id > ?
\* ORDER BY id ASC
get_visitors(rows, after_id) == SelectSeq(rows, LAMBDA row : row.id > after_id)

\* Variant: the export removes from the table the rows it has written.
export_to_excel_consuming(E, rows, ok) ==
    LET new == get_visitors(rows, E.last_export_id)
        Written(visitors_) ==
            [E |-> [last_export_id |-> visitors_[Len(visitors_)].id,
                    excel |-> [exists |-> TRUE,
                               ids |-> [i \in DOMAIN visitors_ |-> visitors_[i].id]]],
             rows |-> SelectSeq(rows, LAMBDA row : row.id > visitors_[Len(visitors_)].id),
             exported |-> Len(visitors_)]
    IN  IF rows = <<>> \/ ~ok THEN [E |-> E, rows |-> rows, exported |-> 0]
        ELSE Written(IF new = <<>> THEN rows ELSE new)

\* max_attempts = 3
max_attempts == 3

\* What one pass of the try block around df.to_excel() can do: write the
\* file, raise PermissionError (the file is open elsewhere), or raise any
\* other exception.
WriteOutcomes == {"ok", "PermissionError", "OSError"}

WriteScripts == [1..max_attempts -> WriteOutcomes]

\* max(visitor[0] for visitor in visitors)
max_visitor_id(visitors_) ==
    CHOOSE m \in {visitors_[i].id : i \in DOMAIN visitors_} :
        \A i \in DOMAIN visitors_ : visitors_[i].id <= m

\* The rows export_to_excel() works on: the rows after last_export_id, or
\* all rows when there is no new one.
export_query(E, rows) ==
    LET new == get_visitors(rows, E.last_export_id)
    IN  IF new = <<>> THEN rows ELSE new

\* From the second attempt on the file gets a new, timestamped name, which
\* stays the exporter's excel_path: a file that does not exist yet.
retry_path(E, attempt) ==
    IF attempt > 0 THEN [E EXCEPT !.excel = [exists |-> FALSE, ids |-> <<>>]] ELSE E

\* Variant: last_export_id is assigned before the file is written.
RECURSIVE write_attempts_cursor_first(_, _, _, _)
write_attempts_cursor_first(E, visitors_, writes, attempt) ==
    LET E1 == [retry_path(E, attempt) EXCEPT !.last_export_id = max_visitor_id(visitors_)]
        raise == [E |-> E1, attempts |-> attempt + 1, success |-> FALSE, raised |-> TRUE]
    IN  IF ~(attempt < max_attempts)
        THEN [E |-> E, attempts |-> attempt, success |-> FALSE, raised |-> FALSE]
        ELSE IF writes[attempt + 1] = "ok"
        THEN [E |-> [E1 EXCEPT !.excel =
                         [exists |-> TRUE,
                          ids |-> [i \in DOMAIN visitors_ |-> visitors_[i].id]]],
              attempts |-> attempt + 1, success |-> TRUE, raised |-> FALSE]
        ELSE IF writes[attempt + 1] = "PermissionError"
        THEN IF attempt + 1 >= max_attempts THEN raise
             ELSE write_attempts_cursor_first(E1, visitors_, writes, attempt + 1)
        ELSE raise

\* The while loop of export_to_excel(): writes[i] is what the i-th pass
\* does.  attempts counts the passes; raised tells whether the loop is left
\* by an exception (the third PermissionError, or any other exception).
RECURSIVE write_attempts(_, _, _, _)
write_attempts(E, visitors_, writes, attempt) ==
    LET E1 == retry_path(E, attempt)
        raise == [E |-> E1, attempts |-> attempt + 1, success |-> FALSE, raised |-> TRUE]
    IN  IF ~(attempt < max_attempts)
        THEN [E |-> E, attempts |-> attempt, success |-> FALSE, raised |-> FALSE]
        ELSE IF writes[attempt + 1] = "ok"
        THEN [E |-> [last_export_id |-> max_visitor_id(visitors_),
                     excel |-> [exists |-> TRUE,
                                ids |-> [i \in DOMAIN visitors_ |-> visitors_[i].id]]],
              attempts |-> attempt + 1, success |-> TRUE, raised |-> FALSE]
        ELSE IF writes[attempt + 1] = "PermissionError"
        THEN IF attempt + 1 >= max_attempts THEN raise
             ELSE write_attempts(E1, visitors_, writes, attempt + 1)
        ELSE raise

\* DataExporter.export_to_excel with the outcome of every pass of its retry
\* loop given: the result carries the exporter, the value returned, the
\* number of passes made and whether an exception leaves the call.  The
\* outer handler (except Exception) catches whatever the loop raises, logs
\* it and returns 0.
export_to_excel_writes(E, rows, writes) ==
    LET Handled(w, visitors_) ==
            [E |-> w.E, exported |-> IF w.raised THEN 0 ELSE Len(visitors_),
             attempts |-> w.attempts, success |-> w.success, raised |-> FALSE]
    IN  IF rows = <<>>
        THEN [E |-> E, exported |-> 0, attempts |-> 0, success |-> FALSE,
              raised |-> FALSE]
        ELSE Handled(write_attempts(E, export_query(E, rows), writes, 0),
                     export_query(E, rows))

\* DataExporter.export_to_excel on the exporter record E and the rows of the
\* table visitors: the rows after last_export_id, or all rows when there is
\* no new one, are written to the spreadsheet and last_export_id advances;
\* when the file cannot be written (ok = FALSE: the write raises an
\* exception other than PermissionError) the error is logged and the call
\* returns 0.  The result carries the table as the call leaves it.
export_to_excel(E, rows, ok) ==
    LET r == export_to_excel_writes(E, rows,
                 [i \in 1..max_attempts |-> IF ok THEN "ok" ELSE "OSError"])
    IN  [E |-> r.E, rows |-> rows, exported |-> r.exported]

\* VisitorCounter.get_stats
get_stats(K) ==
    [total |-> K.count, total_left |-> K.total_left, total_right |-> K.total_right]

\* ------------------------------------------------------------- state
VARIABLES
    \* Tracker
    next_object_id, objects, disappeared, positions, timestamps, states,
    entry_times, exit_times, reid_enabled, person_ids, counted_people,
    \* PersonReID
    gallery, person_count, person_id_mapping,
    \* VisitorCounter
    count, total_left, total_right, last_positions, counted_ids, direction, db,
    \* Database: rows of the table visitors and its AUTOINCREMENT sequence
    visitors, last_rowid,
    \* main: the clock, the object map last returned by update() and the list
    \* last returned by check_for_exits()
    now, objects_snapshot, exited_ids,
    \* main: the configuration the Tracker and the VisitorCounter are built
    \* from, and the position in a scripted run of frames
    config, pc,
    \* main: the loop was left by an exception no handler caught
    crashed,
    \* api: the dict get_stats() is building in the status-serving thread,
    \* and how many of its three entries have been read
    stats, status_pc,
    \* DataExporter: the id of the last row exported and the spreadsheet file
    \* (whether it exists, the ids of the rows in it); api: the HTTP status of
    \* the last response
    last_export_id, excel, response,
    \* main: how the loop was left ("running" while it has not been) and the
    \* number of export_to_excel() calls made on the way out
    exit_path, exit_exports,
    \* api: the position of the background export task inside
    \* export_to_excel() ("idle" when none runs, "write" between the query and
    \* the write of the file) and the rows its query returned
    task_pc, task_visitors,
    \* history: what the last auto-save call of export_to_excel() did
    last_export,
    \* history: ids returned by register(), ids registered through the re-entry
    \* shortcut, the increments of count, the sides each id was classified on
    \* before it was counted, the sides on which already counted ids were
    \* skipped, the calls of add_visitor, the direction argument of the
    \* constructor
    returned_ids, reentered, fired, sides_seen, skipped, add_visitor_calls,
    direction_arg

trackerVars == <<next_object_id, objects, disappeared, positions, timestamps, states,
                 entry_times, exit_times, reid_enabled, person_ids, counted_people,
                 gallery, person_count, person_id_mapping, returned_ids, reentered>>
counterVars == <<count, total_left, total_right, last_positions, counted_ids, direction,
                 db, visitors, last_rowid, fired, sides_seen, skipped,
                 add_visitor_calls, direction_arg>>
statusVars == <<stats, status_pc>>
exporterVars == <<last_export_id, excel, response>>
shutdownVars == <<exit_path, exit_exports>>
taskVars == <<task_pc, task_visitors, last_export>>
vars == <<trackerVars, counterVars, now, objects_snapshot, exited_ids, config, pc,
         crashed, statusVars, exporterVars, shutdownVars, taskVars>>

\* The Tracker object with its PersonReID, as one record.
TrackerState ==
    [next_object_id |-> next_object_id, objects |-> objects,
     disappeared |-> disappeared, positions |-> positions,
     timestamps |-> timestamps, states |-> states,
     entry_times |-> entry_times, exit_times |-> exit_times,
     reid_enabled |-> reid_enabled, person_ids |-> person_ids,
     counted_people |-> counted_people, gallery |-> gallery,
     person_count |-> person_count, person_id_mapping |-> person_id_mapping,
     returned_ids |-> returned_ids, reentered |-> reentered,
     max_disappeared |-> config.max_disappeared,
     max_distance |-> config.max_distance,
     exit_timeout |-> config.exit_timeout,
     raised |-> FALSE]

SetTracker(T) ==
    /\ next_object_id' = T.next_object_id
    /\ objects' = T.objects
    /\ disappeared' = T.disappeared
    /\ positions' = T.positions
    /\ timestamps' = T.timestamps
    /\ states' = T.states
    /\ entry_times' = T.entry_times
    /\ exit_times' = T.exit_times
    /\ reid_enabled' = T.reid_enabled
    /\ person_ids' = T.person_ids
    /\ counted_people' = T.counted_people
    /\ gallery' = T.gallery
    /\ person_count' = T.person_count
    /\ person_id_mapping' = T.person_id_mapping
    /\ returned_ids' = T.returned_ids
    /\ reentered' = T.reentered

\* The VisitorCounter object with its Database, as one record.
CounterState ==
    [count |-> count, total_left |-> total_left, total_right |-> total_right,
     last_positions |-> last_positions, counted_ids |-> counted_ids,
     direction |-> direction, db |-> db, visitors |-> visitors,
     last_rowid |-> last_rowid, fired |-> fired, sides_seen |-> sides_seen,
     skipped |-> skipped, add_visitor_calls |-> add_visitor_calls,
     line_position |-> config.line_position]

SetCounter(K) ==
    /\ count' = K.count
    /\ total_left' = K.total_left
    /\ total_right' = K.total_right
    /\ last_positions' = K.last_positions
    /\ counted_ids' = K.counted_ids
    /\ direction' = K.direction
    /\ db' = K.db
    /\ visitors' = K.visitors
    /\ last_rowid' = K.last_rowid
    /\ fired' = K.fired
    /\ sides_seen' = K.sides_seen
    /\ skipped' = K.skipped
    /\ add_visitor_calls' = K.add_visitor_calls
    /\ direction_arg' = direction_arg

\* The scaled-down configuration of the constructor arguments above.
ScaledConfig ==
    [max_disappeared |-> max_disappeared, max_distance |-> max_distance,
     exit_timeout |-> exit_timeout, line_position |-> line_position]

\* Tracker() as constructed by default (max_disappeared=40, max_distance=50,
\* exit_timeout=10) and with other association radii, in pixels, with the
\* counting line at x = 150.
ScenarioConfigs ==
    { [max_disappeared |-> 40, max_distance |-> d, exit_timeout |-> 10,
       line_position |-> 150] : d \in {50, 59, 60, 69, 70, 100} }

\* Tracker.__init__, PersonReID.__init__, VisitorCounter.__init__ and
\* Database.init_db on a fresh database file.
Init ==
    /\ config \in {ScaledConfig} \cup ScenarioConfigs
    /\ pc = 0
    /\ crashed = FALSE
    /\ stats = [total |-> 0, total_left |-> 0, total_right |-> 0]
    /\ status_pc = 0
    /\ last_export_id = 0
    /\ excel = [exists |-> FALSE, ids |-> <<>>]
    /\ response = 0
    /\ exit_path = "running"
    /\ task_pc = "idle"
    /\ task_visitors = <<>>
    /\ last_export = [before |-> 0, after |-> 0, written |-> <<>>, exported |-> 0,
                      attempts |-> 0, success |-> FALSE, raised |-> FALSE]
    /\ exit_exports = 0
    /\ next_object_id = 0
    /\ objects = EmptyDict
    /\ disappeared = EmptyDict
    /\ positions = EmptyDict
    /\ timestamps = EmptyDict
    /\ states = EmptyDict
    /\ entry_times = EmptyDict
    /\ exit_times = EmptyDict
    /\ reid_enabled \in BOOLEAN
    /\ person_ids = EmptyDict
    /\ counted_people = {}
    /\ gallery = EmptyDict
    /\ person_count = 0
    /\ person_id_mapping = EmptyDict
    /\ count = 0
    /\ total_left = 0
    /\ total_right = 0
    /\ last_positions = EmptyDict
    /\ counted_ids = {}
    /\ direction_arg \in {"left", "right"}
    /\ direction = "left"
    /\ db \in BOOLEAN
    /\ visitors = <<>>
    /\ last_rowid = 0
    /\ now = 0
    /\ objects_snapshot = EmptyDict
    /\ exited_ids = <<>>
    /\ returned_ids = <<>>
    /\ reentered = {}
    /\ fired = <<>>
    /\ sides_seen = EmptyDict
    /\ skipped = {}
    /\ add_visitor_calls = <<>>

\* objects = tracker.update(detections, frame).  An exception raised inside
\* update() is caught nowhere in main: the assignment does not happen and the
\* loop is left.
UpdateUpTo(detections, frame, limit) ==
    \E T \in {update(TrackerState, detections, frame, now)} :
        /\ ~crashed
        /\ T.next_object_id <= limit
        /\ SetTracker(T)
        /\ objects_snapshot' = IF T.raised THEN objects_snapshot ELSE get_objects(T)
        /\ crashed' = T.raised
        /\ UNCHANGED <<counterVars, now, exited_ids, config, statusVars, exporterVars, shutdownVars, taskVars>>

UpdateWith(detections, frame) == UpdateUpTo(detections, frame, MaxIds)

\* main with re-identification enabled: update(detections, frame)
Update ==
    \E detections \in DetectionLists :
        \E frame \in FramesFor(detections) :
            UpdateWith(detections, frame) /\ UNCHANGED pc

\* main with re-identification disabled: update(detections, None)
UpdateNoFrame ==
    \E detections \in DetectionLists :
        UpdateWith(detections, NoFrame) /\ UNCHANGED pc

\* exited_ids = tracker.check_for_exits()
CheckForExits ==
    \E r \in {check_for_exits(TrackerState, now)} :
        /\ ~crashed
        /\ SetTracker(r.T)
        /\ exited_ids' = r.exited_ids
        /\ UNCHANGED <<counterVars, now, objects_snapshot, config, pc, crashed, statusVars,
                       exporterVars, shutdownVars, taskVars>>

\* counter.count_visitors(objects, tracker)
CountWith(failed) ==
    \E S \in {count_visitors(CounterState, TrackerState, objects_snapshot, failed, now)} :
        /\ ~crashed
        /\ SetCounter(S.K)
        /\ SetTracker(S.T)
        /\ UNCHANGED <<now, objects_snapshot, exited_ids, config, crashed>>

\* main: count_visitors() on the last snapshot; any of the database writes
\* may fail.
CountVisitors ==
    \E failed \in SUBSET (DOMAIN objects_snapshot) :
        CountWith(failed) /\ UNCHANGED <<pc, statusVars, exporterVars, shutdownVars, taskVars>>

\* Time passes between two calls.
Tick ==
    /\ ~crashed
    /\ now < MaxTime
    /\ now' = now + 1
    /\ UNCHANGED <<trackerVars, counterVars, objects_snapshot, exited_ids, config, pc,
                   crashed, statusVars, exporterVars, shutdownVars, taskVars>>

\* main with re-identification enabled; the counter has no database.
InitReid ==
    Init /\ config = ScaledConfig /\ reid_enabled /\ ~db /\ direction_arg = "left"

Next == Update \/ CheckForExits \/ CountVisitors \/ Tick

Spec == InitReid /\ [][Next]_vars

\* main with re-identification disabled: tracking by geometry only, with or
\* without a database, for either value of the direction argument.
InitCounter == Init /\ config = ScaledConfig /\ ~reid_enabled

NextCounter == UpdateNoFrame \/ CheckForExits \/ CountVisitors \/ Tick

SpecCounter == InitCounter /\ [][NextCounter]_vars

\* A scripted run: three frames with one detection each, update() then
\* count_visitors() once per frame, of a tracker without re-identification.
ScenarioFrames ==
    << <<100, 100, 140, 220, 90>>, <<160, 100, 200, 220, 90>>, <<90, 100, 130, 220, 90>> >>

\* pc = 2k: before update() of frame k+1; pc = 2k+1: before count_visitors()
\* of frame k+1; pc = 6: after frame 3.
ScenarioUpdate ==
    /\ pc \in {0, 2, 4}
    /\ UpdateWith(<<ScenarioFrames[(pc \div 2) + 1]>>, NoFrame)
    /\ pc' = pc + 1

ScenarioCount ==
    /\ pc \in {1, 3, 5}
    /\ \E failed \in SUBSET (DOMAIN objects_snapshot) : CountWith(failed)
    /\ pc' = pc + 1
    /\ UNCHANGED <<statusVars, exporterVars, shutdownVars, taskVars>>

InitScenario == Init /\ config \in ScenarioConfigs /\ ~reid_enabled

NextScenario == ScenarioUpdate \/ ScenarioCount \/ Tick

SpecScenario == InitScenario /\ [][NextScenario]_vars

\* update() called directly, with detections whose box may be degenerate:
\* zero width, or inverted in y.
Degenerate(bbox) == bbox[3] <= bbox[1] \/ bbox[4] <= bbox[2]

AnyBoxes == { <<2, 0, 4, 2>>, <<4, 0, 4, 2>>, <<2, 2, 4, 0>> }

UpdateAnyBox ==
    \E detections \in SeqsUpTo({ <<b[1], b[2], b[3], b[4], 90>> : b \in AnyBoxes }, MaxDets) :
        UpdateWith(detections, NoFrame) /\ UNCHANGED pc

NextAnyBox == UpdateAnyBox \/ CheckForExits \/ CountVisitors \/ Tick

SpecAnyBox == InitCounter /\ [][NextAnyBox]_vars

\* main with re-identification enabled, where the deep extractor may fail on
\* a crop and fall back to the colour histogram, a vector of another length.
HistogramFeatures == <<10>>

FramesAnyExtractor(detections) ==
    { [present |-> TRUE, img |-> f] :
          f \in [BoxesIn(detections) -> {<<10, 0>>, HistogramFeatures}] }

UpdateAnyExtractor ==
    \E detections \in DetectionLists :
        \E frame \in FramesAnyExtractor(detections) :
            UpdateWith(detections, frame) /\ UNCHANGED pc

NextAnyExtractor == UpdateAnyExtractor \/ CheckForExits \/ CountVisitors \/ Tick

SpecAnyExtractor == InitReid /\ [][NextAnyExtractor]_vars

\* The status-serving thread of api.py next to the main loop without
\* re-identification; get_status() needs a counter and a database.  The
\* thread evaluates the dict of get_stats() entry by entry, and the main loop
\* may run between two entries.
GetStatsTotal ==
    /\ status_pc = 0
    /\ stats' = [stats EXCEPT !.total = get_stats(CounterState).total]
    /\ status_pc' = 1
    /\ UNCHANGED <<trackerVars, counterVars, now, objects_snapshot, exited_ids, config, pc,
                   crashed, exporterVars, shutdownVars, taskVars>>

GetStatsLeft ==
    /\ status_pc = 1
    /\ stats' = [stats EXCEPT !.total_left = get_stats(CounterState).total_left]
    /\ status_pc' = 2
    /\ UNCHANGED <<trackerVars, counterVars, now, objects_snapshot, exited_ids, config, pc,
                   crashed, exporterVars, shutdownVars, taskVars>>

GetStatsRight ==
    /\ status_pc = 2
    /\ stats' = [stats EXCEPT !.total_right = get_stats(CounterState).total_right]
    /\ status_pc' = 0
    /\ UNCHANGED <<trackerVars, counterVars, now, objects_snapshot, exited_ids, config, pc,
                   crashed, exporterVars, shutdownVars, taskVars>>

\* The other way round: the main loop is inside count_visitors(), between
\* "self.count += 1" and "self.total_left += 1" of the first crossing of the
\* call, when the thread runs get_stats() from start to end.
CountVisitorsPreempted ==
    /\ status_pc = 0
    /\ \E failed \in SUBSET (DOMAIN objects_snapshot) :
          /\ CountWith(failed)
          /\ count' > count
    /\ stats' = get_stats(increment_count(CounterState))
    /\ UNCHANGED <<pc, status_pc, exporterVars, shutdownVars, taskVars>>

\* Two boxes, one on each side of the line.
StatusBoxes == { <<2, 0, 4, 2>>, <<4, 0, 6, 2>> }

UpdateStatus ==
    \E detections \in SeqsUpTo({ <<b[1], b[2], b[3], b[4], 90>> : b \in StatusBoxes }, MaxDets) :
        UpdateWith(detections, NoFrame) /\ UNCHANGED pc

InitStatus == InitCounter /\ db /\ direction_arg = "left"

NextStatus ==
    \/ UpdateStatus \/ CheckForExits \/ CountVisitors \/ Tick
    \/ GetStatsTotal \/ GetStatsLeft \/ GetStatsRight \/ CountVisitorsPreempted

SpecStatus == InitStatus /\ [][NextStatus]_vars

\* The four routes of api.py next to the main loop.  /status is the thread
\* of get_stats() above.
\* POST /export: the background task exporter.export_to_excel(); the
\* response (200) is sent before the task runs.
ExportData ==
    \E ok \in BOOLEAN :
        \E r \in {export_to_excel([last_export_id |-> last_export_id, excel |-> excel],
                                  visitors, ok)} :
            /\ last_export_id' = r.E.last_export_id
            /\ excel' = r.E.excel
            /\ visitors' = r.rows
            /\ response' = 200
            /\ UNCHANGED <<trackerVars, count, total_left, total_right, last_positions,
                           counted_ids, direction, db, last_rowid, fired, sides_seen,
                           skipped, add_visitor_calls, direction_arg, now,
                           objects_snapshot, exited_ids, config, pc, crashed, statusVars,
                           shutdownVars, taskVars>>

\* GET /history: db.get_history() is not a method of Database; the
\* AttributeError becomes a 500 response.
GetHistory ==
    /\ response' = 500
    /\ UNCHANGED <<trackerVars, counterVars, now, objects_snapshot, exited_ids, config, pc,
                   crashed, statusVars, last_export_id, excel, shutdownVars, taskVars>>

\* GET /download: the spreadsheet, or 404 when it does not exist.
DownloadExcel ==
    /\ response' = IF excel.exists THEN 200 ELSE 404
    /\ UNCHANGED <<trackerVars, counterVars, now, objects_snapshot, exited_ids, config, pc,
                   crashed, statusVars, last_export_id, excel, shutdownVars, taskVars>>

\* One detection at a time.
UpdateApi ==
    \E detections \in SeqsUpTo({ <<b[1], b[2], b[3], b[4], 90>> : b \in StatusBoxes }, 1) :
        UpdateWith(detections, NoFrame) /\ UNCHANGED pc

NextApi ==
    \/ UpdateApi \/ CheckForExits \/ CountVisitors \/ Tick
    \/ GetStatsTotal \/ GetStatsLeft \/ GetStatsRight
    \/ ExportData \/ GetHistory \/ DownloadExcel

SpecApi == InitStatus /\ [][NextApi]_vars

\* main without re-identification or database, with enough track ids for
\* three live objects, so that update() sheds load (n > 2 * d).
UpdateShed ==
    \E detections \in DetectionLists :
        UpdateUpTo(detections, NoFrame, MaxShedIds) /\ UNCHANGED pc

InitShed == InitCounter /\ ~db /\ direction_arg = "left"

NextShed == UpdateShed \/ CheckForExits \/ CountVisitors \/ Tick

SpecShed == InitShed /\ [][NextShed]_vars

\* A burst of frames handled within one reading of the clock: no time passes,
\* so the exit sweep finds nothing and only update() and count_visitors() act.
NextBurst == UpdateShed \/ CountVisitors

SpecBurst == InitShed /\ [][NextBurst]_vars

\* main, one processed frame: tracker.update() is called twice in a row on the
\* frame's detections; an exception in the first call ends the loop.
track_frame(T, detections, frame, now_) ==
    LET Again(T1) == IF T1.raised THEN T1 ELSE update(T1, detections, frame, now_)
    IN  Again(update(T, detections, frame, now_))

\* main, the body of "if process_this_frame": the two update() calls, the exit
\* sweep when a second has passed since the last one (sweep), and
\* count_visitors() on the objects the second update() returned.
ProcessFrame ==
    \E detections \in DetectionLists, sweep \in BOOLEAN :
        \E T1 \in {track_frame(TrackerState, detections, NoFrame, now)} :
            \E r \in {IF sweep THEN check_for_exits(T1, now)
                               ELSE [T |-> T1, exited_ids |-> exited_ids]} :
                \E S \in {count_visitors(CounterState, r.T, get_objects(T1), {}, now)} :
                    /\ ~crashed
                    /\ T1.next_object_id <= MaxIds
                    /\ SetTracker(S.T)
                    /\ SetCounter(S.K)
                    /\ objects_snapshot' = get_objects(T1)
                    /\ exited_ids' = r.exited_ids
                    /\ UNCHANGED <<now, config, pc, crashed, statusVars, exporterVars, shutdownVars, taskVars>>

NextFrame == ProcessFrame \/ Tick

SpecFrame == InitShed /\ [][NextFrame]_vars

\* While an object is live every update() changes the tracker (the object is
\* matched, or its disappeared count grows, or it is removed).
UpdatePending == DOMAIN objects # {}

\* main keeps reading frames: update() is called again and again while there
\* are live objects.  This is WF_vars(UpdateNoFrame) with UpdatePending, which
\* implies ENABLED <<UpdateNoFrame>>_vars, in its place.
FrameFairness == []<>(~UpdatePending) \/ []<><<UpdateNoFrame>>_vars

SpecCleanup == InitShed /\ [][NextCounter]_vars /\ FrameFairness

\* The exporter as a record, and its assignment back.
ExporterState == [last_export_id |-> last_export_id, excel |-> excel]

SetExporter(E) ==
    /\ last_export_id' = E.last_export_id
    /\ excel' = E.excel

\* Consecutive calls of exporter.export_to_excel(); oks[i] tells whether the
\* file can be written in the i-th call.
RECURSIVE export_calls(_, _, _)
export_calls(E, rows, oks) ==
    IF oks = <<>> THEN E
    ELSE export_calls(export_to_excel(E, rows, Head(oks)).E, rows, Tail(oks))

\* 'exporter' in globals(): exporter is assigned in main() without a global
\* declaration, so the module has no global of that name.
exporter_in_globals == FALSE

\* signal_handler (SIGINT): the export is made only when the module has a
\* global exporter; then sys.exit(0).
signal_handler(E, rows, ok) ==
    IF exporter_in_globals
    THEN [E |-> export_to_excel(E, rows, ok).E, exports |-> 1]
    ELSE [E |-> E, exports |-> 0]

\* One processed frame while the loop runs.
RunFrame == exit_path = "running" /\ ProcessFrame

\* main, "Auto save": exporter.export_to_excel() inside the loop.
AutoSave ==
    \E writes \in WriteScripts :
        \E r \in {export_to_excel_writes(ExporterState, visitors, writes)} :
            /\ exit_path = "running" /\ ~crashed
            /\ SetExporter(r.E)
            /\ last_export' = [before |-> last_export_id, after |-> r.E.last_export_id,
                               written |-> IF r.success THEN r.E.excel.ids ELSE <<>>,
                               exported |-> r.exported, attempts |-> r.attempts,
                               success |-> r.success, raised |-> r.raised]
            /\ UNCHANGED <<trackerVars, counterVars, now, objects_snapshot, exited_ids,
                           config, pc, crashed, statusVars, response, shutdownVars,
                           task_pc, task_visitors>>

\* The background task of POST /export, exporter.export_to_excel() in a
\* thread of the API server, up to its query: the rows it will write.  With
\* an empty table the call returns 0 at once.
ExportTaskRead ==
    /\ task_pc = "idle"
    /\ visitors # <<>>
    /\ task_visitors' = export_query(ExporterState, visitors)
    /\ task_pc' = "write"
    /\ UNCHANGED <<trackerVars, counterVars, now, objects_snapshot, exited_ids, config, pc,
                   crashed, statusVars, exporterVars, shutdownVars, last_export>>

\* The background task from its query on: the retry loop, which writes the
\* rows read before and assigns self.last_export_id.
ExportTaskWrite ==
    \E writes \in WriteScripts :
        /\ task_pc = "write"
        /\ SetExporter(write_attempts(ExporterState, task_visitors, writes, 0).E)
        /\ task_pc' = "idle"
        /\ task_visitors' = <<>>
        /\ UNCHANGED <<trackerVars, counterVars, now, objects_snapshot, exited_ids, config,
                       pc, crashed, statusVars, response, shutdownVars, last_export>>

\* The main loop with auto-save next to the background export task.
NextExport ==
    \/ UpdateApi \/ CountVisitors \/ AutoSave \/ ExportTaskRead \/ ExportTaskWrite

SpecExport == InitStatus /\ [][NextExport]_vars

\* main, cap.read() fails: break, then the two exports after the loop.
EndOfStream ==
    \E oks \in [1..2 -> BOOLEAN] :
        /\ exit_path = "running" /\ ~crashed
        /\ SetExporter(export_calls(ExporterState, visitors, oks))
        /\ exit_path' = "end_of_stream"
        /\ exit_exports' = 2
        /\ UNCHANGED <<trackerVars, counterVars, now, objects_snapshot, exited_ids, config,
                       pc, crashed, statusVars, response, taskVars>>

\* main, key 'q': the export before break, then the two exports after the loop.
QuitKey ==
    \E oks \in [1..3 -> BOOLEAN] :
        /\ exit_path = "running" /\ ~crashed
        /\ SetExporter(export_calls(ExporterState, visitors, oks))
        /\ exit_path' = "quit"
        /\ exit_exports' = 3
        /\ UNCHANGED <<trackerVars, counterVars, now, objects_snapshot, exited_ids, config,
                       pc, crashed, statusVars, response, taskVars>>

\* SIGINT while the loop runs: signal_handler, which ends the process.
Interrupt ==
    \E ok \in BOOLEAN :
        \E r \in {signal_handler(ExporterState, visitors, ok)} :
            /\ exit_path = "running" /\ ~crashed
            /\ SetExporter(r.E)
            /\ exit_path' = "interrupt"
            /\ exit_exports' = r.exports
            /\ UNCHANGED <<trackerVars, counterVars, now, objects_snapshot, exited_ids,
                           config, pc, crashed, statusVars, response, taskVars>>

\* main with a database and the export enabled, until it ends.
InitShutdown == InitCounter /\ db /\ direction_arg = "left"

NextShutdown == RunFrame \/ AutoSave \/ EndOfStream \/ QuitKey \/ Interrupt

SpecShutdown == InitShutdown /\ [][NextShutdown]_vars

\* Embeddings of one person seen twice: close to each other (cosine 0.8 and
\* 0.96, above the threshold) but not equal; <<6, 8>> against <<10, 0>> is
\* exactly at the threshold.
SimilarFeatures == { <<10, 0>>, <<8, 6>>, <<6, 8>> }

FramesSimilar(detections) ==
    { [present |-> TRUE, img |-> f] : f \in [BoxesIn(detections) -> SimilarFeatures] }

\* main with re-identification enabled, on frames whose people look alike.
UpdateSimilar ==
    \E detections \in DetectionLists :
        \E frame \in FramesSimilar(detections) :
            UpdateWith(detections, frame) /\ UNCHANGED pc

NextGallery == UpdateSimilar \/ CountVisitors

SpecGallery == InitReid /\ [][NextGallery]_vars

\* ============================================================ properties
\* Number of increments of count recorded for an object id.
NumFired(log, id) == Cardinality({ i \in DOMAIN log : log[i].id = id })

\* C1: Idempotent crossing.  Every object id increments count at most once,
\* and exactly once when it is counted: an uncounted object whose recorded
\* side is Right and that count_visitors() sees on the Left is counted in that
\* call, and once an id is in counted_ids no step adds another increment for
\* it, however its side oscillates afterwards.
C1_IdempotentCrossing ==
    /\ [](/\ count = Len(fired)
          /\ \A id \in DOMAIN last_positions :
                NumFired(fired, id) = IF id \in counted_ids THEN 1 ELSE 0)
    /\ [][/\ \A id \in counted_ids :
                /\ id \in counted_ids'
                /\ NumFired(fired', id) = NumFired(fired, id)
          /\ \A id \in (DOMAIN objects_snapshot) \cap (DOMAIN last_positions) :
                (/\ id \notin counted_ids
                 /\ last_positions[id].position = "right"
                 /\ Side(CounterState, objects_snapshot[id].centroid) = "left"
                 /\ last_positions'[id].position = "left")
                => (id \in counted_ids' /\ NumFired(fired', id) = 1)
         ]_vars

\* C1 witness: one object was counted once, and count_visitors() then skipped
\* it on the Right and on the Left again.
C1_Witness ==
    /\ count = 1
    /\ Cardinality(counted_ids) = 1
    /\ skipped = {"left", "right"}
    /\ \A id \in counted_ids : NumFired(fired, id) = 1 /\ id \in DOMAIN objects

\* C2: Re-entry recount suppression.  An object registered under a new track
\* id whose personId was already in the counted-persons set never increments
\* count.
C2_NoRecountOnReentry ==
    \A i \in DOMAIN fired : fired[i].id \notin reentered

\* C3: Re-entry shortcut at registration.  A track that register() resolves
\* to an already counted person is Scanned when the call returns, and the
\* call leaves count unchanged.
C3_ReentryShortcut ==
    /\ [][\A id \in reentered' \ reentered :
              /\ id \notin DOMAIN states
              /\ states'[id] = "scanned"
              /\ person_ids'[id] \in counted_people'
              /\ count' = count
              /\ fired' = fired]_vars

\* C3 witness: a track registered through the shortcut is live and Scanned
\* while the person it was resolved to was counted under an earlier track.
C3_Witness ==
    \E id \in reentered :
        /\ id \in DOMAIN objects
        /\ states[id] = "scanned"
        /\ id \notin counted_ids
        /\ \E old \in counted_ids : old # id /\ person_ids[old] = person_ids[id]

\* C4: Counted-person set on exit.  Every track that has a personId and is
\* Exited has that personId in the counted-persons set.
C4_ExitedPersonCounted ==
    \A id \in DOMAIN states :
        (states[id] = "exited" /\ id \in DOMAIN person_ids)
            => person_ids[id] \in counted_people

\* C5: Exactly one event per count.  With a database configured, the calls of
\* add_visitor() are, in order, the increments of count: one call per
\* increment, direction 'left', the note naming the object id; no other call.
C5_OneEventPerCount ==
    db => /\ Len(add_visitor_calls) = count
          /\ Len(add_visitor_calls) = Len(fired)
          /\ \A i \in DOMAIN add_visitor_calls :
                /\ add_visitor_calls[i].direction = "left"
                /\ add_visitor_calls[i].notes = fired[i].id

\* C5 witness: two objects were counted with a database configured.
C5_Witness == db /\ count = 2 /\ Len(add_visitor_calls) = 2

\* C6: Monotone state machine.  In every step the state of every track stays
\* or moves New -> Scanned or Scanned -> Exited; a new track starts New or
\* (re-entry shortcut) Scanned.
C6_MonotoneStates ==
    [][/\ \A id \in DOMAIN states :
             /\ id \in DOMAIN states'
             /\ <<states[id], states'[id]>> \in
                    { <<"new", "new">>, <<"new", "scanned">>, <<"scanned", "scanned">>,
                      <<"scanned", "exited">>, <<"exited", "exited">> }
       /\ \A id \in DOMAIN states' \ DOMAIN states :
             states'[id] \in {"new", "scanned"}]_vars

\* C6 witness: a track went New -> Scanned -> Exited while another is New.
C6_Witness ==
    \E id \in DOMAIN states, other \in DOMAIN states :
        /\ states[id] = "exited"
        /\ id \in counted_ids
        /\ states[other] = "new"

\* C7: No-crossing-no-count.  An object id classified on one side only at
\* every count_visitors() call never increments count and has no event.
C7_NoCrossingNoCount ==
    \A id \in DOMAIN sides_seen :
        Cardinality(sides_seen[id]) = 1 =>
            /\ id \notin counted_ids
            /\ NumFired(fired, id) = 0
            /\ \A i \in DOMAIN add_visitor_calls : add_visitor_calls[i].notes # id

\* C7 witness: an object was only ever seen on the Left and is gone, while
\* another object was counted.
C7_Witness ==
    \E id \in DOMAIN sides_seen :
        /\ sides_seen[id] = {"left"}
        /\ id \notin DOMAIN objects
        /\ count = 1

\* C8: Directional exclusivity.  No increment of count comes from a Left to
\* Right transition, total_right stays 0 and total_left counts the increments,
\* for either value of the direction argument.
C8_DirectionalExclusivity ==
    /\ \A i \in DOMAIN fired : ~(fired[i].from = "left" /\ fired[i].to = "right")
    /\ total_right = 0
    /\ total_left = Len(fired)
    /\ count = Len(fired)
    /\ direction = "left"

\* C8 witness: constructed with direction "right", an object went from Left
\* to Right between two count_visitors() calls and nothing was counted.
C8_Witness ==
    /\ direction_arg = "right"
    /\ count = 0
    /\ \E id \in DOMAIN last_positions :
          /\ sides_seen[id] = {"left", "right"}
          /\ last_positions[id].position = "right"

\* C9: Timeout eviction.  Between calls no live object has disappeared more
\* than max_disappeared frames; an object at max_disappeared that a step
\* leaves live was matched (or not touched); and an object a step removes
\* while Scanned is Exited with an exit time afterwards.
C9_TimeoutEviction ==
    /\ [](\A id \in DOMAIN disappeared : disappeared[id] <= max_disappeared)
    /\ [][/\ \A id \in DOMAIN objects :
                (disappeared[id] = max_disappeared /\ id \in DOMAIN objects')
                    => disappeared'[id] \in {0, max_disappeared}
          /\ \A id \in DOMAIN objects \ DOMAIN objects' :
                states[id] = "scanned" =>
                    (states'[id] = "exited" /\ id \in DOMAIN exit_times')
         ]_vars

\* C9 witness: the only track ever registered was Scanned and has been
\* evicted by update() before any time passed (so not by the exit sweep).
C9_Witness ==
    /\ now = 0
    /\ returned_ids = <<0>>
    /\ 0 \notin DOMAIN objects
    /\ states[0] = "exited"
    /\ 0 \in DOMAIN exit_times

\* C10: Track ids are unique and never reused.  The ids returned by
\* register() are strictly increasing, each created a new track, and every
\* live object carries a returned id below the next id.
C10_UniqueIds ==
    /\ \A i, j \in DOMAIN returned_ids : i < j => returned_ids[i] < returned_ids[j]
    /\ Cardinality(DOMAIN states) = Len(returned_ids)
    /\ DOMAIN objects \subseteq Range(returned_ids)
    /\ \A id \in Range(returned_ids) : id < next_object_id

\* C10 witness: a second id was handed out while the first is no longer live.
C10_Witness ==
    /\ returned_ids = <<0, 1>>
    /\ 0 \notin DOMAIN objects
    /\ 1 \in DOMAIN objects

\* C11: Fixed id-to-person mapping.  A track id that has a personId keeps it
\* in every step, in the tracker's person_ids and in the gallery's
\* person_id_mapping, the two agree, and identify_person() called again for
\* that track id, on any box and any image, returns the same personId and
\* changes nothing.
C11_FixedPersonMapping ==
    /\ [](/\ DOMAIN person_ids = DOMAIN person_id_mapping
          /\ \A id \in DOMAIN person_ids :
                /\ person_ids[id] = person_id_mapping[id]
                /\ \A bbox \in Boxes, f \in Features :
                      LET r == identify_person(TrackerState,
                                   [present |-> TRUE, img |-> [b \in {bbox} |-> f]],
                                   bbox, id)
                      IN  r.person_id = person_ids[id] /\ r.T = TrackerState)
    /\ [][\A id \in DOMAIN person_ids :
              /\ id \in DOMAIN person_ids'
              /\ person_ids'[id] = person_ids[id]
              /\ person_id_mapping'[id] = person_id_mapping[id]]_vars

\* C11 witness: track 0 was identified as person 1 and has exited; a later
\* track was identified as a different person, and person 1 is still what
\* track 0 maps to.
C11_Witness ==
    /\ 0 \in DOMAIN person_ids
    /\ states[0] = "exited"
    /\ person_ids[0] = 1
    /\ 1 \in DOMAIN person_ids
    /\ person_ids[1] = 2
    /\ person_id_mapping[0] = 1

\* C12: Exit sweep.  In every reachable state check_for_exits() moves every
\* live Scanned object last seen more than exit_timeout ago to Exited, stamps
\* its exit time, removes it from the live maps and returns its id; every
\* other live object (New, or Scanned and seen within exit_timeout) is left
\* as it was and is not returned; the returned list has no other id and no
\* duplicate.  A step that changes the list main holds is such a sweep.
C12_ExitSweep ==
    /\ [](LET r == check_for_exits(TrackerState, now)
          IN  /\ Range(r.exited_ids) \subseteq DOMAIN objects
              /\ Cardinality(Range(r.exited_ids)) = Len(r.exited_ids)
              /\ \A id \in DOMAIN objects :
                    IF states[id] = "scanned" /\ now - timestamps[id] > exit_timeout
                    THEN /\ r.T.states[id] = "exited"
                         /\ id \in DOMAIN r.T.exit_times
                         /\ r.T.exit_times[id] = now
                         /\ id \notin DOMAIN r.T.objects
                         /\ id \notin DOMAIN r.T.disappeared
                         /\ id \notin DOMAIN r.T.positions
                         /\ id \in Range(r.exited_ids)
                    ELSE /\ id \in DOMAIN r.T.objects
                         /\ r.T.objects[id] = objects[id]
                         /\ r.T.positions[id] = positions[id]
                         /\ r.T.disappeared[id] = disappeared[id]
                         /\ r.T.states[id] = states[id]
                         /\ r.T.timestamps[id] = timestamps[id]
                         /\ (id \in DOMAIN r.T.exit_times) = (id \in DOMAIN exit_times)
                         /\ id \notin Range(r.exited_ids))
    /\ [][exited_ids' # exited_ids =>
              /\ DOMAIN objects' = DOMAIN objects \ Range(exited_ids')
              /\ \A id \in Range(exited_ids') :
                    /\ id \in DOMAIN objects
                    /\ states[id] = "scanned"
                    /\ now - timestamps[id] > exit_timeout
                    /\ states'[id] = "exited"
                    /\ exit_times'[id] = now
              /\ \A id \in DOMAIN objects' :
                    /\ states'[id] = states[id]
                    /\ (states[id] = "scanned" => now - timestamps[id] <= exit_timeout)]_vars

\* C12 witness: a sweep returned track 0, which is Exited with its exit time
\* stamped, and left live a New track and nothing else.
C12_Witness ==
    /\ exited_ids = <<0>>
    /\ states[0] = "exited"
    /\ exit_times[0] = now
    /\ DOMAIN objects = {1}
    /\ states[1] = "new"

\* What the three-frame scenario is said to give: count 0 after frames 1 and
\* 2; after frame 3 count 1, the object Scanned and, with a database, exactly
\* one add_visitor() call, of direction 'left', for that object.
ScenarioOutcome ==
    /\ pc \in {2, 4} => count = 0 /\ add_visitor_calls = <<>>
    /\ pc = 6 => /\ count = 1
                 /\ DOMAIN objects = {0}
                 /\ states[0] = "scanned"
                 /\ db => add_visitor_calls = <<[direction |-> "left", notes |-> 0]>>
                 /\ ~db => add_visitor_calls = <<>>

\* C13 as claimed: the scenario gives that outcome for the Tracker as
\* constructed by default (max_distance = 50).
C13_ScenarioDefault == config.max_distance = 50 => ScenarioOutcome

\* C13 amended: the scenario gives that outcome when max_distance is at
\* least 70, the largest frame-to-frame jump of the centroid (60 px, then
\* 70 px); with a smaller radius, the default 50 included, a jump opens a
\* second track, count stays 0 through frame 3 and no event is emitted.
C13_Scenario ==
    /\ config.max_distance >= 70 => ScenarioOutcome
    /\ config.max_distance < 70 =>
          /\ count = 0
          /\ add_visitor_calls = <<>>
          /\ pc = 6 => /\ DOMAIN objects = {0, 1}
                       /\ states[0] = "new"
                       /\ states[1] = "new"

\* C13 witness: with max_distance = 70 and a database, frame 3 has been
\* counted: one visitor, one row.
C13_Witness ==
    /\ config.max_distance = 70
    /\ pc = 6
    /\ db
    /\ count = 1
    /\ Len(visitors) = 1
    /\ states[0] = "scanned"

\* C15: Malformed detections are rejected.  No live object carries a
\* degenerate box (x2 <= x1 or y2 <= y1): update() neither registers an
\* object from such a detection nor moves an existing object onto it.
C15_MalformedRejected ==
    \A id \in DOMAIN positions : ~Degenerate(positions[id])

\* C16: Re-identification failure is non-fatal.  An exception of
\* identify_person() never leaves update() (the main loop goes on), and the
\* tracker stays consistent: the live maps have the same keys, every track
\* has an id below the next id, and a track without personId is one whose
\* registration completed.
C16_ReidFailureNonFatal ==
    /\ ~crashed
    /\ DOMAIN objects = DOMAIN positions
    /\ DOMAIN objects = DOMAIN disappeared
    /\ \A id \in DOMAIN states : id < next_object_id /\ id \in Range(returned_ids)

\* C17: A persistence write failure is not lossy.  With a database, every
\* increment of count has its event on record when count_visitors() returns:
\* a row of the table visitors (written at the first attempt or at a retry),
\* or an entry held in memory for later delivery.  VisitorCounter and
\* Database have no field that holds undelivered events, so on record means
\* a row; count itself counts every increment whatever the write did.
C17_WriteFailureNotLossy ==
    /\ count = Len(fired)
    /\ db => \A i \in DOMAIN fired :
                \E j \in DOMAIN visitors : visitors[j].notes = fired[i].id

C19_SingleWriter ==
    /\ [][(statusVars' # statusVars \/ exporterVars' # exporterVars)
              => UNCHANGED <<trackerVars, counterVars>>]_vars
    /\ [][(visitors' # visitors \/ add_visitor_calls' # add_visitor_calls)
              => /\ count' - count = Len(add_visitor_calls') - Len(add_visitor_calls)
                 /\ count' > count
                 /\ UNCHANGED <<statusVars, exporterVars>>]_vars

\* C19 witness: a visitor was counted and stored, the export wrote the row
\* to the spreadsheet, a status snapshot and a download followed, and the
\* table still has the row.
C19_Witness ==
    /\ count = 1
    /\ Len(visitors) = 1
    /\ excel = [exists |-> TRUE, ids |-> <<1>>]
    /\ last_export_id = 1
    /\ stats.total = 1
    /\ status_pc = 0
    /\ response = 200

\* C20: Counter and tracker agree on counted objects.  An object id that a
\* count_visitors() call adds to counted_ids has tracker state Scanned when
\* the call returns, and every id in counted_ids has tracker state Scanned
\* or Exited, never New.
C20_CounterTrackerAgree ==
    /\ [](\A id \in counted_ids :
              id \in DOMAIN states /\ states[id] \in {"scanned", "exited"})
    /\ [][\A id \in counted_ids' \ counted_ids :
              id \in DOMAIN states' /\ states'[id] = "scanned"]_vars

\* C21 as claimed: a Scanned object becomes Exited only in a sweep that finds
\* it last seen more than exit_timeout ago, or in an update() that counts its
\* disappearance past max_disappeared; in particular the load shedding of
\* update() moves no Scanned object to Exited.
C21_OnlyTimeoutOrSweep ==
    /\ [](\A detections \in DetectionLists :
              LET T1 == shed_load(TrackerState, detections, now)
              IN  \A id \in DOMAIN objects :
                      states[id] = "scanned" => T1.states[id] = "scanned")
    /\ [][\A id \in DOMAIN states :
              (states[id] = "scanned" /\ states'[id] = "exited") =>
                  \/ /\ id \in Range(exited_ids')
                     /\ now - timestamps[id] > exit_timeout
                  \/ /\ exited_ids' = exited_ids
                     /\ disappeared[id] + 1 > max_disappeared]_vars

\* C21 amended: a Scanned object becomes Exited only when it is deregistered
\* while live, with its exit time stamped: in a sweep that finds it last seen
\* more than exit_timeout ago, or in an update() that either counts its
\* disappearance past max_disappeared or sheds load (more than two live
\* objects per detection, so at least three live objects).  count_visitors()
\* and every other step leave a Scanned object Scanned.
C21_LegalExitTriggers ==
    [][\A id \in DOMAIN states :
           (states[id] = "scanned" /\ states'[id] = "exited") =>
               /\ id \in DOMAIN objects
               /\ id \notin DOMAIN objects'
               /\ exit_times'[id] = now
               /\ UNCHANGED counterVars
               /\ \/ /\ id \in Range(exited_ids')
                     /\ now - timestamps[id] > exit_timeout
                  \/ /\ exited_ids' = exited_ids
                     /\ \/ disappeared[id] + 1 > max_disappeared
                        \/ /\ Cardinality(DOMAIN objects) > 2
                           /\ \A other \in DOMAIN objects' :
                                 disappeared[other] <= disappeared[id]]_vars

\* C21 witness: three tracks are live, one of them counted and Scanned with
\* a disappearance count not above max_disappeared and seen within
\* exit_timeout, and the load shedding of update() on one detection moves
\* that track to Exited.
C21_Witness ==
    /\ Cardinality(DOMAIN objects) = 3
    /\ \E detections \in DetectionLists, id \in DOMAIN objects :
          /\ id \in counted_ids
          /\ states[id] = "scanned"
          /\ disappeared[id] <= max_disappeared
          /\ now - timestamps[id] <= exit_timeout
          /\ shed_load(TrackerState, detections, now).states[id] = "exited"

\* C22: a New object becomes Scanned only (a) inside count_visitors(), when the
\* side recorded for it is right and its side in the snapshot is left, or (b)
\* inside register(), when re-identification resolved it to a person id that
\* is already in counted_people; update() and check_for_exits() leave every
\* New object New, and a freshly registered object is New otherwise.
C22_LegalScanTriggers ==
    /\ \A id \in DOMAIN states :
           states[id] = "new" =>
               /\ check_for_exits(TrackerState, now).T.states[id] = "new"
               /\ \A failed \in SUBSET (DOMAIN objects_snapshot) :
                      count_visitors(CounterState, TrackerState, objects_snapshot,
                                     failed, now).T.states[id] = "scanned" =>
                          /\ id \in DOMAIN objects_snapshot
                          /\ id \in DOMAIN last_positions
                          /\ last_positions[id].position = "right"
                          /\ Side(CounterState, objects_snapshot[id].centroid) = "left"
    /\ \A detections \in DetectionLists :
           \A frame \in FramesFor(detections) \cup {NoFrame} :
               LET T1 == update(TrackerState, detections, frame, now)
               IN  \A id \in DOMAIN T1.states :
                       IF id \in DOMAIN states
                       THEN states[id] = "new" => T1.states[id] = "new"
                       ELSE \/ T1.states[id] = "new"
                            \/ /\ T1.states[id] = "scanned"
                               /\ reid_enabled /\ frame.present
                               /\ id \in DOMAIN T1.person_ids
                               /\ T1.person_ids[id] \in T1.counted_people

\* Both triggers have acted: one track was counted on a right-to-left crossing
\* and has left, and a later track of the same person was registered Scanned.
C22_Witness ==
    \E a \in DOMAIN states, b \in reentered :
        /\ a \notin reentered
        /\ \E i \in DOMAIN fired :
               fired[i] = [id |-> a, from |-> "right", to |-> "left"]
        /\ states[a] = "exited"
        /\ states[b] = "scanned" /\ person_ids[b] = person_ids[a]

\* C23: every object whose state is Scanned or Exited has an entry time, and
\* no New object has one.
C23_EntryTimeSet ==
    \A id \in DOMAIN states :
        states[id] \in {"scanned", "exited"} <=> id \in DOMAIN entry_times

\* C24: in update() with live objects and a non-empty detection list, the
\* assignment is one-to-one; an object is only assigned its own nearest
\* detection (the first of them when several are equally near) and only within
\* max_distance; of the objects that share a nearest detection, one strictly
\* closer than all the others gets it when it is within max_distance, and
\* every object farther than another one is left unmatched: its centroid stays
\* and its disappeared count grows by one, whatever other detections there are.
C24_GreedyNearest ==
    \A detections \in DetectionLists :
        LET T0 == shed_load(TrackerState, detections, now)
            C == 1..Len(detections)
            within == 4 * config.max_distance * config.max_distance
            d(id, c) == Dist2(T0.objects[id], Centroid(detections[c]))
            mind(id) == Min({ d(id, c) : c \in C })
            nearest(id) == Min({ c \in C : d(id, c) = mind(id) })
            Holds(M, T1) ==
                /\ \A p, q \in M.pairs : (p[1] = q[1]) <=> (p[2] = q[2])
                /\ \A p \in M.pairs :
                       /\ p[1] \in DOMAIN T0.objects /\ p[2] \in C
                       /\ p[2] = nearest(p[1])
                       /\ d(p[1], p[2]) <= within
                       /\ T1.objects[p[1]] = Centroid(detections[p[2]])
                       /\ T1.disappeared[p[1]] = 0
                /\ \A a, b \in DOMAIN T0.objects :
                       (nearest(a) = nearest(b) /\ mind(a) < mind(b)) =>
                           /\ \A c \in C : <<b, c>> \notin M.pairs
                           /\ b \in DOMAIN T1.objects =>
                                  /\ T1.objects[b] = T0.objects[b]
                                  /\ T1.disappeared[b] = T0.disappeared[b] + 1
                /\ \A a \in DOMAIN T0.objects :
                       (/\ mind(a) <= within
                        /\ \A b \in DOMAIN T0.objects \ {a} :
                               nearest(b) = nearest(a) => mind(b) > mind(a)) =>
                           <<a, nearest(a)>> \in M.pairs
        IN  (Len(detections) > 0 /\ DOMAIN T0.objects # {}) =>
                Holds(match_rows(T0, detections, now),
                      update(TrackerState, detections, NoFrame, now))

\* Two live objects share their nearest detection, the farther of them is as
\* near to a second detection, and update() leaves it unmatched.
C24_Witness ==
    \E detections \in DetectionLists, a, b \in DOMAIN objects :
        /\ Len(detections) = 2 /\ Cardinality(DOMAIN objects) = 2
        /\ Dist2(objects[a], Centroid(detections[1])) = 0
        /\ Dist2(objects[b], Centroid(detections[1])) = 16
        /\ Dist2(objects[b], Centroid(detections[2])) = 16
        /\ disappeared[b] = 0
        /\ update(TrackerState, detections, NoFrame, now).objects[b] = objects[b]
        /\ update(TrackerState, detections, NoFrame, now).disappeared[b] = 1

\* C25: when update() returns from a call with a non-empty detection list, the
\* detections map one-to-one to live objects that carry the detection's
\* centroid and bounding box with disappeared = 0; each such object is either
\* one that was live before and has kept its state, or a newly registered one;
\* so there are at least as many live objects as detections.
C25_EveryDetectionTracked ==
    \A detections \in DetectionLists \ { <<>> } :
        LET Holds(T1) ==
                /\ \E f \in [1..Len(detections) -> DOMAIN T1.objects] :
                       /\ \A i, j \in 1..Len(detections) : f[i] = f[j] => i = j
                       /\ \A i \in 1..Len(detections) :
                              /\ T1.objects[f[i]] = Centroid(detections[i])
                              /\ T1.positions[f[i]] = BBoxOf(detections[i])
                              /\ T1.disappeared[f[i]] = 0
                              /\ IF f[i] \in DOMAIN states
                                 THEN f[i] \in DOMAIN objects /\ T1.states[f[i]] = states[f[i]]
                                 ELSE f[i] >= next_object_id /\ T1.states[f[i]] = "new"
                /\ Cardinality(DOMAIN T1.objects) >= Len(detections)
        IN  Holds(update(TrackerState, detections, NoFrame, now))

\* update() with two detections matches a live Scanned object to one of them
\* and registers the other.
C25_Witness ==
    \E detections \in DetectionLists, id \in DOMAIN objects :
        /\ Len(detections) = 2
        /\ states[id] = "scanned"
        /\ objects[id] # Centroid(detections[2])
        /\ update(TrackerState, detections, NoFrame, now).objects[id] = Centroid(detections[2])
        /\ update(TrackerState, detections, NoFrame, now).next_object_id = next_object_id + 1

\* C26: update([]) sheds no load and registers nothing (next_object_id and the
\* set of known ids stay); every live object either stays live with its
\* disappeared count one higher and its centroid, bounding box, state,
\* last-seen time and person id unchanged, or, when that count would exceed
\* max_disappeared, is deregistered.
C26_EmptyFrame ==
    \A frame \in FramesFor(<<>>) \cup {NoFrame} :
        LET Holds(T1) ==
                /\ shed_load(TrackerState, <<>>, now) = TrackerState
                /\ T1.next_object_id = next_object_id
                /\ DOMAIN T1.states = DOMAIN states
                /\ DOMAIN T1.objects \subseteq DOMAIN objects
                /\ DOMAIN T1.disappeared = DOMAIN T1.objects
                /\ \A id \in DOMAIN objects :
                       IF disappeared[id] + 1 > config.max_disappeared
                       THEN id \notin DOMAIN T1.objects
                       ELSE /\ id \in DOMAIN T1.objects
                            /\ T1.disappeared[id] = disappeared[id] + 1
                            /\ T1.objects[id] = objects[id]
                            /\ T1.positions[id] = positions[id]
                            /\ T1.states[id] = states[id]
                            /\ T1.timestamps[id] = timestamps[id]
                            /\ (id \in DOMAIN T1.person_ids) = (id \in DOMAIN person_ids)
                            /\ id \in DOMAIN person_ids => T1.person_ids[id] = person_ids[id]
        IN  Holds(update(TrackerState, <<>>, frame, now))

\* update([]) on two live objects, one of which it keeps (a Scanned one with a
\* person id) and one of which it deregisters.
C26_Witness ==
    \E a, b \in DOMAIN objects :
        /\ states[a] = "scanned" /\ a \in DOMAIN person_ids
        /\ disappeared[a] = 0 /\ disappeared[b] = max_disappeared
        /\ DOMAIN update(TrackerState, <<>>, NoFrame, now).objects = {a}

\* C27: with n live objects and d detections, the load shedding of update()
\* deregisters exactly n \div 2 objects when d >= 1 and n > 2 * d, none of
\* the retained objects has a larger disappeared count than an evicted one,
\* and an evicted object is gone before matching: it is not live after the
\* update even when a detection sits on its centroid; otherwise the step
\* changes nothing.
C27_LoadShedding ==
    \A detections \in DetectionLists :
        LET n == Cardinality(DOMAIN objects)
            d == Len(detections)
            Holds(T0, T1) ==
                IF d >= 1 /\ n > 2 * d
                THEN /\ DOMAIN T0.objects \subseteq DOMAIN objects
                     /\ Cardinality(DOMAIN objects \ DOMAIN T0.objects) = n \div 2
                     /\ \A kept \in DOMAIN T0.objects :
                            /\ T0.objects[kept] = objects[kept]
                            /\ T0.disappeared[kept] = disappeared[kept]
                            /\ T0.states[kept] = states[kept]
                     /\ \A kept \in DOMAIN T0.objects, evicted \in DOMAIN objects \ DOMAIN T0.objects :
                            /\ disappeared[kept] <= disappeared[evicted]
                            /\ evicted \notin DOMAIN T1.objects
                ELSE T0 = TrackerState
        IN  Holds(shed_load(TrackerState, detections, now),
                  update(TrackerState, detections, NoFrame, now))

\* Three live objects and one detection: the object with the largest
\* disappeared count, not the oldest, is shed although the detection sits on it.
C27_Witness ==
    \E detections \in DetectionLists, id \in DOMAIN objects :
        /\ Len(detections) = 1 /\ Cardinality(DOMAIN objects) = 3
        /\ \E older \in DOMAIN objects : older < id /\ disappeared[older] < disappeared[id]
        /\ objects[id] = Centroid(detections[1])
        /\ id \notin DOMAIN shed_load(TrackerState, detections, now).objects

\* C28: deregister() of a live New object, whoever calls it, only removes the
\* object from the live maps: the recorded states, the exit times and
\* counted_people stay as they are; and a step in which a New object leaves
\* the live set keeps its state New, stamps no exit time for it and changes
\* neither the count nor the events of the counter.
C28_SilentDrop ==
    /\ [](\A id \in DOMAIN objects :
              states[id] = "new" =>
                  LET T1 == deregister(TrackerState, id, now)
                  IN  /\ id \notin DOMAIN T1.objects
                      /\ id \notin DOMAIN T1.disappeared
                      /\ id \notin DOMAIN T1.positions
                      /\ T1.states = states
                      /\ T1.exit_times = exit_times
                      /\ T1.counted_people = counted_people)
    /\ [][\A id \in DOMAIN objects :
              (states[id] = "new" /\ id \notin DOMAIN objects') =>
                  /\ states'[id] = "new"
                  /\ id \notin DOMAIN exit_times'
                  /\ UNCHANGED <<count, total_left, total_right, visitors, fired,
                                 add_visitor_calls>>]_vars

\* A New object with a person id has been dropped: it is no longer live, still
\* New, has no exit time and its person is not in counted_people.
C28_Witness ==
    \E id \in DOMAIN states \ DOMAIN objects :
        /\ states[id] = "new"
        /\ id \notin DOMAIN exit_times
        /\ id \in DOMAIN person_ids /\ person_ids[id] \notin counted_people

\* C29: in every call of count_visitors(), an object seen for the first time
\* gets its side recorded and is not counted; an object is counted only when
\* the side recorded for it by the previous call that evaluated it is right
\* and its side now is left, and count grows by the number of objects so
\* counted; every object that was uncounted when the call began has its
\* current side recorded when the call ends.
C29_EdgeTriggered ==
    \A failed \in SUBSET (DOMAIN objects_snapshot) :
        LET Holds(K1) ==
                /\ K1.count - count = Cardinality(K1.counted_ids \ counted_ids)
                /\ \A id \in K1.counted_ids \ counted_ids :
                       /\ id \in DOMAIN objects_snapshot
                       /\ id \in DOMAIN last_positions
                       /\ last_positions[id].position = "right"
                       /\ Side(CounterState, objects_snapshot[id].centroid) = "left"
                /\ \A id \in DOMAIN objects_snapshot :
                       /\ id \notin DOMAIN last_positions =>
                              /\ id \notin K1.counted_ids
                              /\ ~K1.last_positions[id].counted
                       /\ id \notin counted_ids =>
                              K1.last_positions[id].position =
                                  Side(CounterState, objects_snapshot[id].centroid)
        IN  Holds(count_visitors(CounterState, TrackerState, objects_snapshot,
                                 failed, now).K)

\* One call of count_visitors() sees an object recorded on the right now on
\* the left and counts it, and sees another object on the left for the first
\* time and only records it.
C29_Witness ==
    \E a, b \in DOMAIN objects_snapshot :
        /\ a \in DOMAIN last_positions /\ a \notin counted_ids
        /\ last_positions[a].position = "right"
        /\ Side(CounterState, objects_snapshot[a].centroid) = "left"
        /\ b \notin DOMAIN last_positions
        /\ Side(CounterState, objects_snapshot[b].centroid) = "left"
        /\ count_visitors(CounterState, TrackerState, objects_snapshot, {}, now).K.counted_ids
               = counted_ids \cup {a}

\* C30: count_visitors() called a second time on the same snapshot right
\* after the first call changes neither count, total_left, counted_ids nor the
\* events handed to the database, whichever writes fail.
C30_RepeatedCallIdempotent ==
    \A failed1, failed2 \in SUBSET (DOMAIN objects_snapshot) :
        LET Second(S1) ==
                count_visitors(S1.K, S1.T, objects_snapshot, failed2, now)
            Same(K1, K2) ==
                /\ K2.count = K1.count
                /\ K2.total_left = K1.total_left
                /\ K2.counted_ids = K1.counted_ids
                /\ K2.add_visitor_calls = K1.add_visitor_calls
                /\ K2.visitors = K1.visitors
            Holds(S1) == Same(S1.K, Second(S1).K)
        IN  Holds(count_visitors(CounterState, TrackerState, objects_snapshot,
                                 failed1, now))

\* The snapshot holds an object that the first call counts, with an event
\* written to the database, and one it sees for the first time on the left.
C30_Witness ==
    \E a, b \in DOMAIN objects_snapshot :
        /\ db
        /\ b \notin DOMAIN last_positions
        /\ Side(CounterState, objects_snapshot[b].centroid) = "left"
        /\ a \notin counted_ids
        /\ LET K1 == count_visitors(CounterState, TrackerState, objects_snapshot, {}, now).K
           IN  /\ K1.count = count + 1
               /\ a \in K1.counted_ids
               /\ Len(K1.visitors) = Len(visitors) + 1

\* C31: a processed frame advances the disappeared count of a live object that
\* stays live and unmatched by exactly one (a matched object is reset to 0),
\* and a live object leaves the live set in a frame only when its count plus
\* this frame's one exceeds max_disappeared or the exit sweep removed it.
C31_OneUpdatePerFrame ==
    [][\A id \in DOMAIN objects :
           /\ id \in DOMAIN objects' =>
                  disappeared'[id] \in {0, disappeared[id] + 1}
           /\ id \notin DOMAIN objects' =>
                  \/ disappeared[id] + 1 > max_disappeared
                  \/ exited_ids' # exited_ids /\ id \in Range(exited_ids')]_vars

\* C32: under continued update() calls, no object stays live and unmatched
\* for ever: again and again it is either matched (disappeared = 0) or no
\* longer live; and an object that is no longer live is never left Scanned, so
\* a Scanned object that is removed has reached Exited.
C32_EventualCleanup ==
    /\ [](\A id \in DOMAIN states \ DOMAIN objects : states[id] # "scanned")
    /\ \A id \in 0..(MaxIds - 1) :
           []<>(id \notin DOMAIN objects \/ disappeared[id] = 0)

\* A Scanned object went unmatched past max_disappeared and is Exited, no exit
\* sweep having removed anything, and a New object has been removed as well.
C32_Witness ==
    \E a, b \in DOMAIN states \ DOMAIN objects :
        /\ states[a] = "exited" /\ exited_ids = <<>>
        /\ states[b] = "new"

\* C33: whichever way the main loop ends (end of stream, quit key, interrupt
\* signal), export_to_excel() has been called on the way out.
C33_FlushOnExit ==
    exit_path # "running" => exit_exports > 0

\* C34: whenever identify_person() matches the embedding of a new track to a
\* gallery entry with a different stored embedding, the stored embedding
\* changes and does not become the new embedding (it becomes a blend of both).
C34_GalleryBlend ==
    \A detections \in DetectionLists \ { <<>> } :
        \A frame \in FramesSimilar(detections) :
            LET bbox == BBoxOf(detections[1])
                new == extract_features(frame, bbox)
                Holds(r) ==
                    (~r.T.raised /\ ~r.is_new /\ gallery[r.person_id] # new) =>
                        /\ r.T.gallery[r.person_id] # gallery[r.person_id]
                        /\ r.T.gallery[r.person_id] # new
            IN  Holds(identify_person(TrackerState, frame, bbox, next_object_id))

\* C35: the person ids issued are 1..person_count, one gallery entry each; and
\* for a track id not yet mapped, identify_person() returns a gallery entry of
\* highest similarity with is_new = FALSE, leaving the gallery alone, exactly
\* when that similarity is strictly above the threshold, and otherwise issues
\* person_count + 1, stores the embedding under it and returns is_new = TRUE.
C35_IdentificationRule ==
    /\ DOMAIN gallery = 1..person_count
    /\ \A detections \in DetectionLists \ { <<>> } :
           \A frame \in FramesSimilar(detections) :
               LET bbox == BBoxOf(detections[1])
                   features == extract_features(frame, bbox)
                   sim(p) == compare_features(features, gallery[p])
                   top == IF gallery = EmptyDict THEN 0
                          ELSE CHOOSE s \in { sim(p) : p \in DOMAIN gallery } :
                                   \A p \in DOMAIN gallery : sim(p) <= s
                   Holds(r) ==
                       /\ ~r.T.raised
                       /\ r.T.person_id_mapping =
                              Put(person_id_mapping, next_object_id, r.person_id)
                       /\ IF top > similarity_threshold
                          THEN /\ ~r.is_new
                               /\ r.person_id \in DOMAIN gallery
                               /\ sim(r.person_id) = top
                               /\ r.T.gallery = gallery
                               /\ r.T.person_count = person_count
                          ELSE /\ r.is_new
                               /\ r.person_id = person_count + 1
                               /\ r.T.person_count = person_count + 1
                               /\ r.T.gallery = Put(gallery, r.person_id, features)
               IN  next_object_id \notin DOMAIN person_id_mapping =>
                       Holds(identify_person(TrackerState, frame, bbox, next_object_id))

\* Two people are in the gallery, a new track looks like both of them (0.8
\* and 0.96, both above the threshold) and is given the id of the closer one.
C35_Witness ==
    /\ DOMAIN gallery = {1, 2}
    /\ next_object_id \notin DOMAIN person_id_mapping
    /\ \E detections \in DetectionLists \ { <<>> } :
           \E frame \in FramesSimilar(detections) :
               LET features == extract_features(frame, BBoxOf(detections[1]))
                   r == identify_person(TrackerState, frame, BBoxOf(detections[1]),
                                        next_object_id)
               IN  /\ compare_features(features, gallery[1]) = 80
                   /\ compare_features(features, gallery[2]) = 96
                   /\ r.person_id = 2 /\ ~r.is_new

C37_CounterBookkeeping ==
    /\ count = total_left
    /\ count = Cardinality(counted_ids)
    /\ total_right = 0
    /\ counted_ids \subseteq DOMAIN last_positions
    /\ \A id \in DOMAIN last_positions :
           last_positions[id].counted <=> id \in counted_ids

\* One object has been counted and another one is known but not counted.
C37_Witness ==
    /\ count = 1 /\ total_left = 1
    /\ \E id \in counted_ids : last_positions[id].counted
    /\ \E id \in DOMAIN last_positions : ~last_positions[id].counted

\* C38: exited objects are never live.  In every reachable state the live maps
\* (centroids, disappeared counters, bounding boxes) have the same key set,
\* every live id has state "new" or "scanned", and an id has an exit time
\* exactly when its state is "exited".
C38_ExitedNeverLive ==
    /\ DOMAIN objects = DOMAIN disappeared
    /\ DOMAIN objects = DOMAIN positions
    /\ DOMAIN objects \subseteq DOMAIN states
    /\ \A id \in DOMAIN objects : states[id] \in {"new", "scanned"}
    /\ DOMAIN exit_times = {id \in DOMAIN states : states[id] = "exited"}

\* One object has exited and is no longer live while another one, already
\* scanned, is still tracked.
C38_Witness ==
    /\ \E id \in DOMAIN exit_times : states[id] = "exited" /\ id \notin DOMAIN objects
    /\ \E id \in DOMAIN objects : states[id] = "scanned"

\* C39: the exporter's last_export_id never decreases, also when the
\* auto-save of the main loop and the background export task of the API run
\* export_to_excel() concurrently.
C39_CursorNeverDecreases == [][last_export_id' >= last_export_id]_vars

\* C40: export_to_excel() does not raise to its caller and makes at most 3
\* write attempts; when no attempt succeeds it returns 0 and leaves
\* last_export_id unchanged; last_export_id changes only after a successful
\* write, to the largest id written.
C40_ExportFailureHandling ==
    /\ ~last_export.raised
    /\ last_export.attempts <= 3
    /\ ~last_export.success =>
           last_export.exported = 0 /\ last_export.after = last_export.before
    /\ last_export.after # last_export.before => last_export.success
    /\ last_export.success =>
           /\ last_export.written # <<>>
           /\ \A i \in DOMAIN last_export.written :
                  last_export.written[i] <= last_export.after
           /\ \E i \in DOMAIN last_export.written :
                  last_export.written[i] = last_export.after

\* An export has advanced last_export_id on its third attempt.
C40_Witness ==
    /\ last_export.attempts = 3
    /\ last_export.success
    /\ last_export.after > last_export.before

====
